---- MODULE Spec2Model ----
(***************************************************************************)
(* Request-governance layer of the Pet Detective API:                      *)
(*   api/utils/error_handler.py  (rate limiter, error taxonomy, pipeline)  *)
(*   api/index.py                (the guarded endpoints)                   *)
(*                                                                         *)
(* Spec      requests of several clients served one at a time: the rate    *)
(*           limiter as error_handler drives it.                           *)
(* PipeSpec  every guarded endpoint and request shape, one client: the     *)
(*           decorator pipeline and the error envelopes.                   *)
(* ConcSpec  check_rate_limit run by several request threads, interleaved  *)
(*           at statement granularity over the shared dictionaries.        *)
(* SoloSpec  the traffic of Spec, next to one limiter per client that      *)
(*           receives that client's checks alone.                          *)
(* FnSpec    the pure routines of api/validation.py and                    *)
(*           sanitize_error_message, each applied once to a drawn input.   *)
(***************************************************************************)
EXTENDS Integers, Sequences, FiniteSets, TLC

(***************************************************************************)
(* Bounds.  Time is counted in abstract ticks; Limit, Window and           *)
(* BlockDuration are scaled-down stand-ins for the parameters              *)
(* limit = 100, window = 3600 and the literal 3600 of check_rate_limit.    *)
(***************************************************************************)
Limit == 2
Window == 2
BlockDuration == 2
MaxTime == 3
PipeMaxTime == 2
MaxThreadCalls == 2
\* Longest string given to sanitize_string, and most parts in a message
\* given to sanitize_error_message.
MaxStrLen == 3
MaxParts == 2

Clients == {"10.0.0.1", "10.0.0.2"}
Threads == {"th1", "th2"}

\* Python None, for string-valued attributes.
NoneVal == "None"
\* request.content_length when the header is absent (Python None).
NoLength == -1

(***************************************************************************)
(* Dictionaries are functions whose DOMAIN is the set of keys present.     *)
(***************************************************************************)
EmptyDict == [k \in {} |-> 0]

DictSet(d, k, v) == [x \in (DOMAIN d) \cup {k} |-> IF x = k THEN v ELSE d[x]]

DictDel(d, k) == [x \in (DOMAIN d) \ {k} |-> d[x]]

(***************************************************************************)
(* Error taxonomy (error_handler.py 55-92).  An exception is a record;     *)
(* exceptions that are not APIError carry no status_code / error_code      *)
(* attribute (0 / NoneVal here).                                           *)
(***************************************************************************)
APIErrorInit_m(cls, message, status_code, error_code, field) ==
    [cls |-> cls, message |-> message, status_code |-> 500,
     error_code |-> "INTERNAL_ERROR", field |-> field]

APIErrorInit(cls, message, status_code, error_code, field) ==
    [cls |-> cls, message |-> message, status_code |-> status_code,
     error_code |-> IF error_code \in {NoneVal, ""} THEN "INTERNAL_ERROR" ELSE error_code,
     field |-> field]

APIError(message) == APIErrorInit("APIError", message, 500, NoneVal, NoneVal)

APIErrorWith(message, status_code, error_code) ==
    APIErrorInit("APIError", message, status_code, error_code, NoneVal)

ValidationError(message, field) ==
    APIErrorInit("ValidationError", message, 400, "VALIDATION_ERROR", field)

AuthenticationError ==
    APIErrorInit("AuthenticationError", <<"Authentication required">>, 401, "AUTH_ERROR", NoneVal)

AuthorizationError ==
    APIErrorInit("AuthorizationError", <<"Insufficient permissions">>, 403, "PERMISSION_ERROR", NoneVal)

ResourceNotFoundError ==
    APIErrorInit("ResourceNotFoundError", <<"Resource not found">>, 404, "NOT_FOUND", NoneVal)

RateLimitError ==
    APIErrorInit("RateLimitError", <<"Rate limit exceeded">>, 429, "RATE_LIMIT", NoneVal)

SecurityError ==
    APIErrorInit("SecurityError", <<"Security violation detected">>, 403, "SECURITY_ERROR", NoneVal)

\* An exception outside the APIError hierarchy (Exception, KeyError,
\* werkzeug BadRequest, validation.ValidationError, ...).
OtherException(cls, message) ==
    [cls |-> cls, message |-> message, status_code |-> 0,
     error_code |-> NoneVal, field |-> NoneVal]

\* No exception raised.
NoError == OtherException("none", <<>>)

APIErrorClasses ==
    {"APIError", "ValidationError", "AuthenticationError", "AuthorizationError",
     "ResourceNotFoundError", "RateLimitError", "SecurityError"}

IsAPIError(e) == e.cls \in APIErrorClasses

(***************************************************************************)
(* Rate limiter, sequential semantics of check_rate_limit                  *)
(* (error_handler.py 180-218).                                             *)
(***************************************************************************)
InWindow_m(req_time, window_start) == req_time >= window_start

\* line 187
InWindow(req_time, window_start) == req_time > window_start

Prune(times, window_start) == SelectSeq(times, LAMBDA t : InWindow(t, window_start))

CleanUp_m(rc, window_start) ==
    [ip \in DOMAIN rc |-> Prune(rc[ip], window_start)]

\* lines 186-189: every list is filtered, emptied lists are deleted
CleanUp(rc, window_start) ==
    LET pruned == [ip \in DOMAIN rc |-> Prune(rc[ip], window_start)]
    IN  [ip \in {k \in DOMAIN rc : pruned[k] # <<>>} |-> pruned[ip]]

BlockActive_m(blocked_until, current_time) == blocked_until >= current_time

\* line 193
BlockActive(blocked_until, current_time) == blocked_until > current_time

LimitExceeded_m(count, limit) == count >= limit

\* line 205
LimitExceeded(count, limit) == count > limit

\* line 207
BlockUntil(current_time) == current_time + BlockDuration

RateLimitEvent_m(client_ip, endpoint, count, limit) ==
    [event_type |-> "RATE_LIMIT_EXCEEDED", severity |-> "WARNING",
     details |-> [client_ip |-> client_ip, endpoint |-> endpoint,
                  request_count |-> count, limit |-> limit]]

\* line 209-214
RateLimitEvent(client_ip, endpoint, count, limit) ==
    [event_type |-> "RATE_LIMIT_EXCEEDED", severity |-> "HIGH",
     details |-> [client_ip |-> client_ip, endpoint |-> endpoint,
                  request_count |-> count, limit |-> limit]]

OnBlocked_m(rc, bl, client_ip, current_time) ==
    [rc |-> rc, bl |-> DictSet(bl, client_ip, BlockUntil(current_time)),
     result |-> FALSE, branch |-> "blocked", unblocked |-> FALSE, events |-> <<>>]

\* lines 193-194: an unexpired block returns False at once
OnBlocked(rc, bl, client_ip, current_time) ==
    [rc |-> rc, bl |-> bl, result |-> FALSE, branch |-> "blocked",
     unblocked |-> FALSE, events |-> <<>>]

RECURSIVE TotalCount(_, _)
TotalCount(rc, ips) ==
    IF ips = {} THEN 0
    ELSE LET ip == CHOOSE k \in ips : TRUE
         IN  Len(rc[ip]) + TotalCount(rc, ips \ {ip})

WindowCount_m(rc, client_ip) == TotalCount(rc, DOMAIN rc)

\* lines 205 and 212: len(request_counts[client_ip])
WindowCount(rc, client_ip) == Len(rc[client_ip])

\* The whole call: returns the new dictionaries, the boolean result, the
\* branch taken (unblocked: line 196 deleted an expired block) and the
\* audit events emitted.
check_rate_limit(rc, bl, current_time, client_ip, endpoint, limit, window) ==
    LET window_start == current_time - window
        rc1 == CleanUp(rc, window_start)
        expired == client_ip \in DOMAIN bl /\ ~ BlockActive(bl[client_ip], current_time)
    IN  IF client_ip \in DOMAIN bl /\ BlockActive(bl[client_ip], current_time)
        THEN OnBlocked(rc1, bl, client_ip, current_time)
        ELSE
          LET bl1 == IF client_ip \in DOMAIN bl THEN DictDel(bl, client_ip) ELSE bl
              rc2 == IF client_ip \notin DOMAIN rc1 THEN DictSet(rc1, client_ip, <<>>) ELSE rc1
              rc3 == [rc2 EXCEPT ![client_ip] = Append(@, current_time)]
              count == WindowCount(rc3, client_ip)
          IN  IF LimitExceeded(count, limit)
              THEN [rc |-> rc3, bl |-> DictSet(bl1, client_ip, BlockUntil(current_time)),
                    result |-> FALSE, branch |-> "exceeded", unblocked |-> expired,
                    events |-> <<RateLimitEvent(client_ip, endpoint, count, limit)>>]
              ELSE [rc |-> rc3, bl |-> bl1, result |-> TRUE, branch |-> "allowed",
                    unblocked |-> expired, events |-> <<>>]

(***************************************************************************)
(* Text.  A Python str is a TLA+ string; Char(s, i) is s[i-1].  An         *)
(* exception message is kept as the sequence of its parts, and str(e) is   *)
(* the parts joined by single spaces.                                      *)
(***************************************************************************)
Char(s, i) == SubSeq(s, i, i)

InStr(c, s) == \E i \in 1..Len(s) : Char(s, i) = c

Contains(s, sub) ==
    \E i \in 1..(Len(s) - Len(sub) + 1) : SubSeq(s, i, i + Len(sub) - 1) = sub

UpperCase == "ABCDEFGHIJKLMNOPQRSTUVWXYZ"

LowerCase == "abcdefghijklmnopqrstuvwxyz"

Digits == "0123456789"

\* \s of the re module
Whitespace == " \t\n\r\f"

\* [a-zA-Z0-9_\-]
SegChars == LowerCase \o UpperCase \o Digits \o "_-"

ToLower(c) ==
    IF InStr(c, UpperCase)
    THEN Char(LowerCase, CHOOSE i \in 1..Len(UpperCase) : Char(UpperCase, i) = c)
    ELSE c

RECURSIVE Join(_, _)
Join(parts, i) ==
    IF i > Len(parts) THEN ""
    ELSE IF i = Len(parts) THEN parts[i]
    ELSE parts[i] \o " " \o Join(parts, i + 1)

\* str(e)
Str(e) == Join(e.message, 1)

(***************************************************************************)
(* sanitize_error_message (error_handler.py 123-140): six re.sub passes    *)
(* with re.IGNORECASE.  A match attempt at index i gives the index just    *)
(* after the match, or 0.  In every pattern the character after a greedy   *)
(* run lies outside the run's class, so the longest run is the only one    *)
(* the regex engine can settle on.                                         *)
(***************************************************************************)
\* The literal `lit` (lower case), matched at index i ignoring case.
LiteralAt(s, i, lit) ==
    /\ i + Len(lit) - 1 <= Len(s)
    /\ \A k \in 1..Len(lit) : ToLower(Char(s, i + k - 1)) = Char(lit, k)

RECURSIVE Span(_, _, _, _)
\* End of the longest run from index i of characters inside (negate =
\* FALSE) or outside (negate = TRUE) the class.
Span(s, i, class, negate) ==
    IF i <= Len(s) /\ (InStr(Char(s, i), class) # negate)
    THEN Span(s, i + 1, class, negate)
    ELSE i

\* word[=:]\s*\S+
CredentialAt(s, i, word) ==
    LET a == i + Len(word)
    IN  IF LiteralAt(s, i, word) /\ a <= Len(s) /\ InStr(Char(s, a), "=:")
        THEN LET b == Span(s, a + 1, Whitespace, FALSE)
                 c == Span(s, b, Whitespace, TRUE)
             IN  IF c > b THEN c ELSE 0
        ELSE 0

\* /[a-zA-Z0-9_\-]+/[a-zA-Z0-9_\-]+\.py
PathAt(s, i) ==
    IF i <= Len(s) /\ Char(s, i) = "/"
    THEN LET a == Span(s, i + 1, SegChars, FALSE)
         IN  IF a > i + 1 /\ a <= Len(s) /\ Char(s, a) = "/"
             THEN LET b == Span(s, a + 1, SegChars, FALSE)
                  IN  IF b > a + 1 /\ LiteralAt(s, b, ".py") THEN b + 3 ELSE 0
             ELSE 0
    ELSE 0

\* line \d+
LineAt(s, i) ==
    IF LiteralAt(s, i, "line ")
    THEN LET b == Span(s, i + 5, Digits, FALSE)
         IN  IF b > i + 5 THEN b ELSE 0
    ELSE 0

Credential(word) == [kind |-> "credential", word |-> word]

\* lines 128-135
sensitive_patterns ==
    << Credential("password"), Credential("token"), Credential("key"),
       Credential("secret"),
       [kind |-> "path", word |-> ""], [kind |-> "line", word |-> ""] >>

MatchEnd(pattern, s, i) ==
    CASE pattern.kind = "credential" -> CredentialAt(s, i, pattern.word)
      [] pattern.kind = "path"       -> PathAt(s, i)
      [] pattern.kind = "line"       -> LineAt(s, i)

Redacted == "[REDACTED]"

RECURSIVE Sub(_, _, _)
\* re.sub(pattern, '[REDACTED]', s) from index i on: the leftmost match is
\* replaced and the scan resumes just after it.
Sub(pattern, s, i) ==
    LET starts == {j \in i..Len(s) : MatchEnd(pattern, s, j) > 0}
    IN  IF starts = {} THEN SubSeq(s, i, Len(s))
        ELSE LET j == CHOOSE m \in starts : \A k \in starts : m <= k
             IN  SubSeq(s, i, j - 1) \o Redacted \o Sub(pattern, s, MatchEnd(pattern, s, j))

RECURSIVE SubAll(_, _, _)
\* lines 137-138
SubAll(patterns, k, s) ==
    IF k > Len(patterns) THEN s
    ELSE SubAll(patterns, k + 1, Sub(patterns[k], s, 1))

sanitize_error_message(error) == SubAll(sensitive_patterns, 1, Str(error))

(***************************************************************************)
(* APIValidator (validation.py).  A routine returns Accept(value) or the   *)
(* validation.ValidationError it raises; that class derives from Exception *)
(* and not from APIError (validation.py 14-19), and no routine passes a    *)
(* field.                                                                  *)
(***************************************************************************)
ValidatorError(message) == OtherException("validation.ValidationError", message)

Accept(value) == [ok |-> TRUE, value |-> value, exc |-> NoError]

Reject(message) == [ok |-> FALSE, value |-> "", exc |-> ValidatorError(message)]

\* The ASCII characters of code points 32 to 95, and 97 to 126, in order.
PrintableLow == " !\"#$%&'()*+,-./0123456789:;<=>?@ABCDEFGHIJKLMNOPQRSTUVWXYZ[\\]^_"

PrintableHigh == "abcdefghijklmnopqrstuvwxyz{|}~"

IndexIn(c, s) == CHOOSE i \in 1..Len(s) : Char(s, i) = c

\* ord(char)
Ord(c) ==
    CASE c = "\t" -> 9
      [] c = "\n" -> 10
      [] c = "\f" -> 12
      [] c = "\r" -> 13
      [] InStr(c, PrintableLow)  -> 31 + IndexIn(c, PrintableLow)
      [] InStr(c, PrintableHigh) -> 96 + IndexIn(c, PrintableHigh)

RECURSIVE RemoveControl(_, _)
\* line 54
RemoveControl(value, i) ==
    IF i > Len(value) THEN ""
    ELSE (IF Ord(Char(value, i)) >= 32 \/ InStr(Char(value, i), "\t\n\r")
          THEN Char(value, i) ELSE "") \o RemoveControl(value, i + 1)

Strip_m(value) ==
    LET a == IF Len(value) > 0 /\ InStr(Char(value, 1), Whitespace) THEN 2 ELSE 1
        b == IF Len(value) > 0 /\ InStr(Char(value, Len(value)), Whitespace)
             THEN Len(value) - 1 ELSE Len(value)
    IN  SubSeq(value, a, b)

\* line 57: str.strip()
Strip(value) ==
    LET inner == {i \in 1..Len(value) : ~ InStr(Char(value, i), Whitespace)}
    IN  IF inner = {} THEN ""
        ELSE SubSeq(value, CHOOSE a \in inner : \A k \in inner : a <= k,
                           CHOOSE b \in inner : \A k \in inner : b >= k)

\* [<>"'&]
SpecialChars == "<>\"'&"

\* validation.py 47-68, for a str argument
sanitize_string(value, max_length, allow_special) ==
    LET cleaned == Strip(RemoveControl(value, 1))
    IN  IF Len(cleaned) > max_length
        THEN Reject(<<"String too long">>)
        ELSE IF ~ allow_special
                /\ \E i \in 1..Len(cleaned) : InStr(Char(cleaned, i), SpecialChars)
        THEN Reject(<<"String contains invalid characters">>)
        ELSE Accept(cleaned)

\* lines 25-31, in dictionary order; a signature is a sequence of bytes
ALLOWED_IMAGE_TYPES ==
    << [mime |-> "image/jpeg", magic |-> { <<255, 216, 255>> }],
       [mime |-> "image/png",  magic |-> { <<137, 80, 78, 71, 13, 10, 26, 10>> }],
       [mime |-> "image/webp", magic |-> { <<82, 73, 70, 70>>, <<87, 69, 66, 80>> }],
       [mime |-> "image/bmp",  magic |-> { <<66, 77>> }],
       [mime |-> "image/gif",  magic |-> { <<71, 73, 70, 56, 55, 97>>,
                                           <<71, 73, 70, 56, 57, 97>> }] >>

MAX_IMAGE_SIZE == 10 * 1024 * 1024

\* [a-zA-Z0-9._-]
FilenameChars == LowerCase \o UpperCase \o Digits \o "._-"

\* FILENAME_PATTERN.match (line 45)
FILENAME_PATTERN(filename) ==
    /\ Len(filename) > 0
    /\ \A i \in 1..Len(filename) : InStr(Char(filename, i), FilenameChars)

\* bytes.startswith
StartsWith(content, magic) ==
    Len(content) >= Len(magic) /\ SubSeq(content, 1, Len(magic)) = magic

\* lines 120-130: the first type, in order, one of whose signatures matches
DetectedType(content) ==
    LET hits == {k \in 1..Len(ALLOWED_IMAGE_TYPES) :
                    \E m \in ALLOWED_IMAGE_TYPES[k].magic : StartsWith(content, m)}
    IN  IF hits = {} THEN NoneVal
        ELSE ALLOWED_IMAGE_TYPES[CHOOSE k \in hits : \A j \in hits : k <= j].mime

RECURSIVE LowerStr(_, _)
\* str.lower()
LowerStr(str, i) ==
    IF i > Len(str) THEN "" ELSE ToLower(Char(str, i)) \o LowerStr(str, i + 1)

\* line 136
FileExt(filename) ==
    LET dots == {i \in 1..Len(filename) : Char(filename, i) = "."}
    IN  IF dots = {} THEN ""
        ELSE LowerStr(SubSeq(filename, 1 + CHOOSE d \in dots : \A k \in dots : d >= k,
                             Len(filename)), 1)

\* lines 137-143
expected_extensions(mime) ==
    CASE mime = "image/jpeg" -> {"jpg", "jpeg"}
      [] mime = "image/png"  -> {"png"}
      [] mime = "image/webp" -> {"webp"}
      [] mime = "image/bmp"  -> {"bmp"}
      [] mime = "image/gif"  -> {"gif"}

ExtensionMatches_m(detected_type, file_ext) == TRUE

\* lines 145-146
ExtensionMatches(detected_type, file_ext) ==
    file_ext \in expected_extensions(detected_type)

\* validation.py 95-149.  A file is its name, the first bytes of its content
\* and the content's length.
validate_image_file(file) ==
    IF file.filename = ""
    THEN Reject(<<"No file provided">>)
    ELSE LET name == sanitize_string(file.filename, 255, FALSE)
         IN  IF ~ name.ok THEN name
             ELSE IF ~ FILENAME_PATTERN(name.value)
             THEN Reject(<<"Invalid filename format">>)
             ELSE IF file.size = 0
             THEN Reject(<<"Empty file">>)
             ELSE IF file.size > MAX_IMAGE_SIZE
             THEN Reject(<<"File too large">>)
             ELSE IF DetectedType(file.head) = NoneVal
             THEN Reject(<<"Invalid image file format">>)
             ELSE IF ~ ExtensionMatches(DetectedType(file.head), FileExt(name.value))
             THEN Reject(<<"File extension doesn't match content type">>)
             ELSE Accept(name.value)

\* Uploads.  A 10-byte payload with the JPEG signature, and one payload for each
\* other signature; a RIFF container holding WAVE audio; plain text; no content.
JpegPayload == <<255, 216, 255, 224, 0, 16, 74, 70, 73, 70>>

Payloads ==
    { JpegPayload,
      <<137, 80, 78, 71, 13, 10, 26, 10, 0, 0>>,
      <<82, 73, 70, 70, 0, 0, 0, 0, 87, 69, 66, 80>>,
      <<87, 69, 66, 80>>,
      <<82, 73, 70, 70, 0, 0, 0, 0, 87, 65, 86, 69>>,
      <<66, 77, 0, 0>>,
      <<71, 73, 70, 56, 55, 97, 0>>,
      <<71, 73, 70, 56, 57, 97, 0>>,
      <<104, 101, 108, 108, 111>>,
      <<>> }

Filenames ==
    { "a.jpg", "a.jpeg", "A.JPG", "a.png", "a.gif", "a.bmp", "a.webp", "a",
      "a.jpg.png", " a.jpg", "a b.jpg", "a<.jpg", "" }

Files ==
    { [filename |-> n, head |-> p, size |-> Len(p)] : n \in Filenames, p \in Payloads }
    \cup { [filename |-> "a.jpg", head |-> JpegPayload, size |-> MAX_IMAGE_SIZE + 1] }

\* What validate_image_file raises for the uploads it rejects.
ImageRejections ==
    LET results == {validate_image_file(f) : f \in Files}
    IN  {res.exc : res \in {x \in results : ~ x.ok}}

(***************************************************************************)
(* create_error_response (error_handler.py 142-174).  The response body is *)
(* a dictionary; the second component is the transport status code.        *)
(***************************************************************************)
\* request_id = None (line 142)
NoRequestId == <<>>

InternalMessage == <<"Internal server error">>

Truthy(v) == v # NoneVal /\ v # ""

\* line 147
ErrorText(error) == error.message

\* lines 152-153
WithField(response, error) ==
    IF error.cls = "ValidationError" /\ Truthy(error.field)
    THEN DictSet(response, "field", error.field)
    ELSE response

UnexpectedBody_m(error) ==
    [error |-> error.message, error_code |-> "INTERNAL_ERROR", status_code |-> 500]

\* lines 162-166
UnexpectedBody(error) ==
    [error |-> InternalMessage, error_code |-> "INTERNAL_ERROR", status_code |-> 500]

create_error_response(error, request_id, utcnow) ==
    LET base == IF IsAPIError(error)
                THEN WithField([error |-> ErrorText(error),
                                error_code |-> error.error_code,
                                status_code |-> error.status_code], error)
                ELSE UnexpectedBody(error)
        status_code == IF IsAPIError(error) THEN error.status_code ELSE 500
        with_id == IF request_id # NoRequestId THEN DictSet(base, "request_id", request_id)
                   ELSE base
    IN  [body |-> DictSet(with_id, "timestamp", utcnow), status |-> status_code]

(***************************************************************************)
(* Requests.  content_type is the header value as a sequence of tokens     *)
(* (<<>>: header absent or empty, both falsy in Python); content_length    *)
(* is NoLength when absent; json is the outcome of request.get_json().     *)
(***************************************************************************)
MaxJsonSize == 1048576

ContentTypes ==
    { <<>>, <<"application/json">>, <<"application/json", "charset=utf-8">>,
      <<"multipart/form-data", "boundary=x">>, <<"text/plain">>,
      <<"application/jsonl">>, <<"Application/JSON">> }

ContentLengths == {NoLength, 0, MaxJsonSize, MaxJsonSize + 1}

RequiredFields == <<"user_answer", "correct_answer", "user_id">>

\* Parsed JSON objects, by the set of keys present and the keys set to null.
JsonObject(keys, nulls) ==
    [ok |-> TRUE, data |-> [k \in keys |-> IF k \in nulls THEN NoneVal ELSE "v"]]

\* A body werkzeug cannot parse: get_json() raises BadRequest.
JsonMalformed == [ok |-> FALSE, data |-> EmptyDict]

JsonBodies ==
    { JsonObject({"user_answer", "correct_answer", "user_id"}, {}),
      JsonObject({"user_answer", "correct_answer"}, {}),
      JsonObject({"user_answer", "correct_answer", "user_id"}, {"user_id"}),
      JsonObject({"user_id", "model_type"}, {}),
      JsonObject({}, {}),
      JsonMalformed }

NoBody == JsonObject({}, {})

\* request.is_json: the mimetype is application/json
IsJson(content_type) == content_type # <<>> /\ content_type[1] = "application/json"

\* Membership in a sequence.
Occurs(token, seq) == \E i \in 1..Len(seq) : seq[i] = token

\* `allowed_type in content_type`: a substring test on the header value,
\* kept as its parameters; no allowed type holds a separator, so it occurs
\* in the value exactly when it occurs in one of the parameters.
TypeIn(allowed_type, content_type) ==
    \E i \in 1..Len(content_type) : Contains(content_type[i], allowed_type)

(***************************************************************************)
(* Validation decorators (error_handler.py 267-308).  Each returns the     *)
(* exception it raises, or NoError when it calls through.                  *)
(***************************************************************************)
JoinFields(fields) == <<"Missing required fields:">> \o fields

validate_content_type_m(allowed_types, r) ==
    IF ~ \E a \in allowed_types : TypeIn(a, r.content_type)
    THEN ValidationError(<<"Invalid content type. Allowed:">>, NoneVal)
    ELSE NoError

\* lines 272-274
validate_content_type(allowed_types, r) ==
    IF r.content_type # <<>>
       /\ ~ \E a \in allowed_types : TypeIn(a, r.content_type)
    THEN ValidationError(<<"Invalid content type. Allowed:">>, NoneVal)
    ELSE NoError

validate_json_size_m(max_size, r) ==
    IF r.content_length # NoLength /\ r.content_length # 0
       /\ r.content_length >= max_size
    THEN ValidationError(<<"Payload too large">>, NoneVal)
    ELSE NoError

\* lines 284-285
validate_json_size(max_size, r) ==
    IF r.content_length # NoLength /\ r.content_length # 0
       /\ r.content_length > max_size
    THEN ValidationError(<<"Payload too large">>, NoneVal)
    ELSE NoError

MissingFields_m(required_fields, data) ==
    SelectSeq(required_fields, LAMBDA f : f \notin DOMAIN data)

\* line 302
MissingFields(required_fields, data) ==
    SelectSeq(required_fields, LAMBDA f : f \notin DOMAIN data \/ data[f] = NoneVal)

\* lines 295-304
require_fields(required_fields, r) ==
    IF ~ IsJson(r.content_type)
    THEN ValidationError(<<"Request must be JSON">>, NoneVal)
    ELSE IF ~ r.json.ok
    THEN OtherException("BadRequest", <<"400 Bad Request">>)
    ELSE IF DOMAIN r.json.data = {}
    THEN ValidationError(<<"Empty JSON payload">>, NoneVal)
    ELSE LET missing_fields == MissingFields(required_fields, r.json.data)
         IN  IF missing_fields # <<>>
             THEN ValidationError(JoinFields(missing_fields), NoneVal)
             ELSE NoError

RunRule(rule, r) ==
    CASE rule.name = "validate_content_type" -> validate_content_type(rule.allowed, r)
      [] rule.name = "validate_json_size"    -> validate_json_size(rule.max_size, r)
      [] rule.name = "require_fields"        -> require_fields(rule.fields, r)

ContentTypeRule(allowed) ==
    [name |-> "validate_content_type", allowed |-> allowed, max_size |-> 0, fields |-> <<>>]

JsonSizeRule(max_size) ==
    [name |-> "validate_json_size", allowed |-> {}, max_size |-> max_size, fields |-> <<>>]

RequireFieldsRule(fields) ==
    [name |-> "require_fields", allowed |-> {}, max_size |-> 0, fields |-> fields]

(***************************************************************************)
(* Guarded endpoints of index.py: the decorators under @error_handler, in  *)
(* the order they run.  "wrapped" stands for any function decorated with   *)
(* @error_handler alone, whose body may raise any error of the taxonomy.   *)
(***************************************************************************)
Endpoints == {"health_check", "predict", "start_game", "check_answer", "wrapped"}

Rules_m(endpoint) ==
    CASE endpoint = "predict"      -> <<ContentTypeRule({"multipart/form-data"})>>
      [] endpoint = "start_game"   -> <<ContentTypeRule({"application/json"}),
                                        JsonSizeRule(MaxJsonSize)>>
      [] endpoint = "check_answer" -> <<JsonSizeRule(MaxJsonSize),
                                        ContentTypeRule({"application/json"}),
                                        RequireFieldsRule(RequiredFields)>>
      [] OTHER -> <<>>

Rules(endpoint) ==
    CASE endpoint = "predict"      -> <<ContentTypeRule({"multipart/form-data"})>>
      [] endpoint = "start_game"   -> <<ContentTypeRule({"application/json"}),
                                        JsonSizeRule(MaxJsonSize)>>
      [] endpoint = "check_answer" -> <<ContentTypeRule({"application/json"}),
                                        JsonSizeRule(MaxJsonSize),
                                        RequireFieldsRule(RequiredFields)>>
      [] OTHER -> <<>>

(***************************************************************************)
(* What a wrapped function does once it is invoked: it returns a response  *)
(* or raises.  start_game and check_answer have their own                  *)
(* `except Exception` (index.py 343-344, 411-412) and so never raise.      *)
(***************************************************************************)
ExcTexts ==
    { <<"division by zero">>,
      <<"password=hunter2", "failed at", "/home/user/app/api/x.py", "line 42">> }

Return(body, status) ==
    [kind |-> "return", exc |-> NoError, response |-> [body |-> body, status |-> status]]

Raise(e) ==
    [kind |-> "raise", exc |-> e, response |-> [body |-> EmptyDict, status |-> 0]]

NotInvoked ==
    [kind |-> "none", exc |-> NoError, response |-> [body |-> EmptyDict, status |-> 0]]

Success == Return([result |-> "ok"], 200)

\* `return jsonify({'error': str(e)}), 500`
OwnError(text) == Return([error |-> text], 500)

HandlerOutcomes(endpoint) ==
    CASE endpoint = "health_check" ->
           {Success} \cup {Raise(APIError(<<"Health check failed:">> \o t)) : t \in ExcTexts}
      [] endpoint = "predict" ->
           {Success,
            Raise(ValidationError(<<"No image file provided in request">>, NoneVal)),
            Raise(APIError(<<"Prediction failed - invalid image or model error">>))}
           \cup {Raise(e) : e \in ImageRejections}
           \cup {Raise(OtherException("Exception", t)) : t \in ExcTexts}
      [] endpoint = "start_game" ->
           {Success} \cup {OwnError(t) : t \in ExcTexts}
      [] endpoint = "check_answer" ->
           {Success} \cup {OwnError(t) : t \in ExcTexts}
      [] endpoint = "wrapped" ->
           {Success,
            Raise(ValidationError(<<"Invalid value">>, "model_type")),
            Raise(AuthenticationError), Raise(AuthorizationError),
            Raise(ResourceNotFoundError), Raise(RateLimitError),
            Raise(SecurityError),
            Raise(APIError(<<"Invalid prediction results">>))}
           \cup {Raise(OtherException("Exception", t)) : t \in ExcTexts}

\* The requests sent to check_answer: each header and the body varied on
\* its own around a well-formed request, plus requests breaking several
\* rules at once.
CheckAnswerInputs ==
    LET good == JsonObject({"user_answer", "correct_answer", "user_id"}, {})
        short == JsonObject({"user_answer", "correct_answer"}, {})
    IN  { <<ct, NoLength, good>> : ct \in ContentTypes }
        \cup { <<(<<"application/json">>), cl, good>> : cl \in ContentLengths }
        \cup { <<(<<"application/json">>), NoLength, b>> : b \in JsonBodies }
        \cup { <<(<<"text/plain">>), MaxJsonSize + 1, short>>,
               <<(<<"application/json">>), MaxJsonSize + 1, short>>,
               <<(<<"text/plain">>), NoLength, short>>,
               <<(<<>>), MaxJsonSize + 1, good>>,
               <<(<<>>), NoLength, short>> }

Requests(client, endpoint) ==
    CASE endpoint = "predict" ->
           { [endpoint |-> endpoint, client |-> client, content_type |-> ct,
              content_length |-> NoLength, json |-> NoBody] : ct \in ContentTypes }
      [] endpoint = "start_game" ->
           { [endpoint |-> endpoint, client |-> client, content_type |-> ct,
              content_length |-> cl, json |-> NoBody] :
                 ct \in ContentTypes, cl \in ContentLengths }
      [] endpoint = "check_answer" ->
           { [endpoint |-> endpoint, client |-> client, content_type |-> i[1],
              content_length |-> i[2], json |-> i[3]] : i \in CheckAnswerInputs }
      [] OTHER ->
           { [endpoint |-> endpoint, client |-> client, content_type |-> <<>>,
              content_length |-> NoLength, json |-> NoBody] }

RECURSIVE Chain(_, _, _, _)
\* The nested decorators: rule i runs, and on success calls the next one;
\* the innermost call is the endpoint function itself.
Chain(rules, i, r, h) ==
    IF i > Len(rules)
    THEN [out |-> h, ran |-> <<"handler">>]
    ELSE LET e == RunRule(rules[i], r)
         IN  IF e # NoError
             THEN [out |-> Raise(e), ran |-> <<rules[i].name>>]
             ELSE LET rest == Chain(rules, i + 1, r, h)
                  IN  [out |-> rest.out, ran |-> <<rules[i].name>> \o rest.ran]

\* Every exception a request can end in, and the sanitized form of its
\* text: sanitize_error_message is a pure function of str(e), computed once
\* for each text.
Raisable ==
    {RateLimitError} \cup
    UNION { { Chain(Rules(ep), 1, r, h).out.exc :
                 r \in Requests(NoneVal, ep), h \in HandlerOutcomes(ep) } :
            ep \in Endpoints }

Sanitized == [text \in {Str(e) : e \in Raisable} |-> SubAll(sensitive_patterns, 1, text)]

\* sanitize_error_message(e), for an exception of a request
SanitizedMessage(e) == Sanitized[Str(e)]

(***************************************************************************)
(* error_handler (error_handler.py 220-265).                               *)
(***************************************************************************)
\* line 225: a digest of the time and the peer address
RequestId(t, addr) == <<t, addr>>

AuditedClasses_m ==
    {"SecurityError", "AuthenticationError", "AuthorizationError", "RateLimitError"}

\* line 256
AuditedClasses == {"SecurityError", "AuthenticationError", "AuthorizationError"}

\* lines 257-261
SecurityEvent(e, error_message, request_id) ==
    [event_type |-> "SECURITY_ERROR", severity |-> "HIGH",
     details |-> [error_type |-> e.cls,
                  error_message |-> error_message,
                  request_id |-> request_id]]

\* request.method and request.path of each route (index.py 43, 197, 272, 346)
Method(endpoint) == IF endpoint = "health_check" THEN "GET" ELSE "POST"

Path(endpoint) ==
    CASE endpoint = "health_check" -> "/api/health"
      [] endpoint = "predict"      -> "/api/predict"
      [] endpoint = "start_game"   -> "/api/game/start"
      [] endpoint = "check_answer" -> "/api/game/check"
      [] OTHER                     -> "/api/" \o endpoint

\* One line written through a logger.  Attributes the line does not print
\* are NoneVal.
LogLine(name, level, kind, request_id, method, path, client, text) ==
    [logger |-> name, level |-> level, kind |-> kind, request_id |-> request_id,
     method |-> method, path |-> path, client |-> client, text |-> text]

\* line 237
RequestLine(request_id, r) ==
    LogLine("api", "info", "request", request_id, Method(r.endpoint),
            Path(r.endpoint), r.client, "")

\* line 243
SuccessLine(request_id) ==
    LogLine("api", "info", "success", request_id, NoneVal, NoneVal, NoneVal, "Success")

\* line 250
ErrorLine(request_id, error_message) ==
    LogLine("api", "error", "error", request_id, NoneVal, NoneVal, NoneVal,
            "Error - " \o error_message)

\* traceback.format_exc(): the frames, then the exception's class and text
Traceback(e) == "Traceback (most recent call last): " \o e.cls \o ": " \o Str(e)

\* lines 158-159, inside create_error_response
UnexpectedErrorLog(e) ==
    IF IsAPIError(e) THEN <<>>
    ELSE <<LogLine("error", "error", "unexpected", NoRequestId, NoneVal, NoneVal,
                   NoneVal, "Unexpected error: " \o Traceback(e))>>

\* lines 247-263
FailureBranch(e, request_id, utcnow) ==
    LET error_message == SanitizedMessage(e)
    IN  [response |-> create_error_response(e, request_id, utcnow),
         events |-> IF e.cls \in AuditedClasses
                    THEN <<SecurityEvent(e, error_message, request_id)>> ELSE <<>>,
         log |-> <<ErrorLine(request_id, error_message)>> \o UnexpectedErrorLog(e)]

AfterRateLimit_m(allowed, r, h) ==
    Chain(Rules(r.endpoint), 1, r, h)

\* lines 233-240: a rejected check raises RateLimitError before f is called
AfterRateLimit(allowed, r, h) ==
    IF ~ allowed
    THEN [out |-> Raise(RateLimitError), ran |-> <<>>]
    ELSE Chain(Rules(r.endpoint), 1, r, h)

\* h is what the endpoint function does if it gets invoked.
error_handler(r, allowed, h, t) ==
    LET request_id == RequestId(t, r.client)
        run == AfterRateLimit(allowed, r, h)
        failed == IF run.out.kind = "raise"
                  THEN FailureBranch(run.out.exc, request_id, t)
                  ELSE [response |-> run.out.response, events |-> <<>>,
                        log |-> <<SuccessLine(request_id)>>]
    IN  [response |-> failed.response,
         events |-> failed.events,
         ran |-> <<"check_rate_limit">> \o run.ran,
         outcome |-> IF Occurs("handler", run.ran) THEN h ELSE NotInvoked,
         log |-> (IF allowed THEN <<RequestLine(request_id, r)>> ELSE <<>>) \o failed.log,
         failure |-> IF run.out.kind = "raise" THEN run.out.exc ELSE NoError]

(***************************************************************************)
(* State.                                                                  *)
(***************************************************************************)
VARIABLES
    now,             \* int(time.time())
    request_counts,  \* module global: client -> list of request times
    blocked_ips,     \* module global: client -> blocked-until time
    req,             \* the request handled last
    resp,            \* the response sent for it
    ran,             \* the pipeline stages that ran for it, in order
    outcome,         \* what its endpoint function did (NotInvoked if skipped)
    audit,           \* security-log events written for it
    rl,              \* its check_rate_limit call: client, result, branch taken
    ncalls,          \* per client, checks made within its first window
    first,           \* per client, time of its first check (-1: none)
    failure,         \* the exception its `except` branch caught (NoError: none)
    log,             \* lines the api and error loggers wrote for it
    call,            \* the validator or sanitizer call made last, with its result
    pc,              \* per thread, position inside check_rate_limit
    loc,             \* per thread, local variables of the running call
    appended,        \* per client and time, appends performed by threads
    allowedAt,       \* per client and time, thread calls that returned True
    solo             \* per client, a limiter that receives that client's checks only

limiter == <<request_counts, blocked_ips>>
last == <<req, resp, ran, outcome, audit, rl, ncalls, first, failure, log>>
threads == <<pc, loc, appended, allowedAt>>
vars == <<now, request_counts, blocked_ips, req, resp, ran, outcome, audit, rl,
          ncalls, first, failure, log, call, pc, loc, appended, allowedAt, solo>>

NoRequest ==
    [endpoint |-> "none", client |-> NoneVal, content_type |-> <<>>,
     content_length |-> NoLength, json |-> NoBody]

NoCall == [client |-> NoneVal, result |-> TRUE, branch |-> "none", unblocked |-> FALSE]

\* History of a client's first window, for counting its checks: the count
\* n and the time f of the first check.  The count stops (Limit + 2, no
\* time) once it passes Limit + 1 or a check falls outside that window.
CountCheck(n, f, t) ==
    IF n = Limit + 2 \/ (f # -1 /\ f <= t - Window) \/ n + 1 = Limit + 2
    THEN <<Limit + 2, -1>>
    ELSE <<n + 1, IF f = -1 THEN t ELSE f>>

\* A limiter no check has reached yet.
NoSolo == [rc |-> EmptyDict, bl |-> EmptyDict, result |-> TRUE]

NoValidation == [fn |-> "none", args |-> <<>>, done |-> TRUE, out |-> <<>>]

IdleLocals ==
    [client |-> NoneVal, current_time |-> -1, keys |-> {}, ip |-> NoneVal,
     filtered |-> <<>>, result |-> "none", calls |-> 0]

Times == 0..MaxTime

\* The service right after start-up.
InitService ==
    /\ now = 0
    /\ request_counts = EmptyDict
    /\ blocked_ips = EmptyDict
    /\ req = NoRequest
    /\ resp = [body |-> EmptyDict, status |-> 0]
    /\ ran = <<>>
    /\ outcome = NotInvoked
    /\ audit = <<>>
    /\ rl = NoCall
    /\ ncalls = [c \in Clients |-> 0]
    /\ first = [c \in Clients |-> -1]
    /\ failure = NoError
    /\ log = <<>>
    /\ pc = [t \in Threads |-> "idle"]
    /\ loc = [t \in Threads |-> IdleLocals]
    /\ appended = [c \in Clients |-> [t \in Times |-> 0]]
    /\ allowedAt = [c \in Clients |-> [t \in Times |-> 0]]
    /\ solo = [c \in Clients |-> NoSolo]

Init == InitService /\ call = NoValidation

\* The clock advances between requests.
Tick ==
    /\ now < MaxTime
    /\ now' = now + 1
    /\ UNCHANGED <<limiter, last, call, solo, threads>>

PipeClient == "10.0.0.1"

\* One request served start to finish by the decorated endpoint function.
\* What the endpoint function does is chosen only if the call reaches it.
\* chk and res name the single result of the one call made of each routine.
HandleRequest(client, endpoint) ==
    \E chk \in {check_rate_limit(request_counts, blocked_ips, now, client,
                                 endpoint, Limit, Window)} :
    LET count == CountCheck(ncalls[client], first[client], now)
    IN  /\ request_counts' = chk.rc
        /\ blocked_ips' = chk.bl
        /\ rl' = [client |-> client, result |-> chk.result, branch |-> chk.branch,
                  unblocked |-> chk.unblocked]
        /\ ncalls' = [ncalls EXCEPT ![client] = count[1]]
        /\ first' = [first EXCEPT ![client] = count[2]]
        /\ \E r \in Requests(client, endpoint) :
             LET reached == Occurs("handler", AfterRateLimit(chk.result, r, NotInvoked).ran)
             IN  \E h \in (IF reached THEN HandlerOutcomes(endpoint) ELSE {NotInvoked}) :
                   \E res \in {error_handler(r, chk.result, h, now)} :
                       /\ req' = r
                       /\ resp' = res.response
                       /\ ran' = res.ran
                       /\ outcome' = res.outcome
                       /\ audit' = chk.events \o res.events
                       /\ failure' = res.failure
                       /\ log' = res.log
        /\ UNCHANGED <<now, threads, call>>

(***************************************************************************)
(* Spec: the limiter under traffic from every client.  The requests go to  *)
(* health_check, the endpoint with no decorator but @error_handler.        *)
(***************************************************************************)
Request == (\E c \in Clients : HandleRequest(c, "health_check")) /\ UNCHANGED solo

Next == Tick \/ Request

Spec == Init /\ [][Next]_vars

(***************************************************************************)
(* SoloSpec: the same traffic, with a second limiter for each client that   *)
(* receives that client's checks alone, at the same times.                 *)
(***************************************************************************)
SoloCheck(c) ==
    LET chk == check_rate_limit(solo[c].rc, solo[c].bl, now, c, "health_check",
                                Limit, Window)
    IN  solo' = [solo EXCEPT ![c] = [rc |-> chk.rc, bl |-> chk.bl, result |-> chk.result]]

SoloRequest == \E c \in Clients : HandleRequest(c, "health_check") /\ SoloCheck(c)

SoloNext == Tick \/ SoloRequest

SoloSpec == Init /\ [][SoloNext]_vars

(***************************************************************************)
(* PipeSpec: every guarded endpoint, with every request shape, called by   *)
(* one client.                                                             *)
(***************************************************************************)
PipeRequest == (\E ep \in Endpoints : HandleRequest(PipeClient, ep)) /\ UNCHANGED solo

\* The clock, over a horizon long enough for a block to expire.
PipeTick == now < PipeMaxTime /\ Tick

\* register_error_handlers (error_handler.py 323-344): the handlers Flask
\* calls for an HTTP error raised outside the endpoint functions.  None of
\* them passes a request id.
HttpErrors == {404, 405, 413, 500}

register_error_handlers(code, utcnow) ==
    CASE code = 404 -> create_error_response(ResourceNotFoundError, NoRequestId, utcnow)
      [] code = 405 -> create_error_response(
                          APIErrorWith(<<"Method not allowed">>, 405, "METHOD_NOT_ALLOWED"),
                          NoRequestId, utcnow)
      [] code = 413 -> create_error_response(
                          ValidationError(<<"Payload too large">>, NoneVal),
                          NoRequestId, utcnow)
      [] code = 500 -> create_error_response(APIError(<<"Internal server error">>),
                                             NoRequestId, utcnow)

\* A request that ends in one of these handlers: no decorated function and
\* so no rate-limit check runs for it.
HttpError(client) ==
    \E code \in HttpErrors :
        /\ req' = [endpoint |-> "http_error", client |-> client, content_type |-> <<>>,
                   content_length |-> NoLength, json |-> NoBody]
        /\ resp' = register_error_handlers(code, now)
        /\ ran' = <<>>
        /\ outcome' = NotInvoked
        /\ audit' = <<>>
        /\ rl' = NoCall
        /\ failure' = NoError
        /\ log' = <<>>
        /\ UNCHANGED <<now, limiter, ncalls, first, call, solo, threads>>

PipeHttpError == HttpError(PipeClient)

PipeNext == PipeTick \/ PipeRequest \/ PipeHttpError

PipeSpec == Init /\ [][PipeNext]_vars

(***************************************************************************)
(* FnSpec: the stateless routines, each applied to inputs drawn from a     *)
(* bounded set; `call` records the routine, its arguments and its result.  *)
(***************************************************************************)
ExampleParts ==
    <<"password=hunter2", "failed at", "/home/user/app/api/x.py", "line 42">>

Fragments ==
    {ExampleParts[i] : i \in 1..Len(ExampleParts)} \cup {"Token: abc", "SECRET=s3 key:k1"}

RECURSIVE PartsUpTo(_)
PartsUpTo(n) ==
    IF n = 0 THEN {<<>>}
    ELSE LET shorter == PartsUpTo(n - 1)
         IN  shorter \cup {Append(parts, f) : parts \in shorter, f \in Fragments}

MessageInputs == PartsUpTo(MaxParts) \cup {ExampleParts}

Alphabet == {"a", " ", "\f", "\t", "<"}

RECURSIVE StringsUpTo(_)
StringsUpTo(n) ==
    IF n = 0 THEN {""}
    ELSE LET shorter == StringsUpTo(n - 1)
         IN  shorter \cup {str \o c : str \in shorter, c \in Alphabet}

MaxLengths == {2, 255}

\* A call about to be made: the routine and its arguments.
Pending(fn, args) == [fn |-> fn, args |-> args, done |-> FALSE, out |-> <<>>]

Calls ==
    { Pending("sanitize_error_message", <<OtherException("Exception", parts)>>) :
         parts \in MessageInputs }
    \cup { Pending("sanitize_string", <<value, max_length, allow_special>>) :
              value \in StringsUpTo(MaxStrLen), max_length \in MaxLengths,
              allow_special \in BOOLEAN }
    \cup { Pending("validate_image_file", <<file>>) : file \in Files }

FnInit == InitService /\ call \in Calls

Returns(fn, out) ==
    /\ call.fn = fn /\ ~ call.done
    /\ call' = [call EXCEPT !.done = TRUE, !.out = out]
    /\ UNCHANGED <<now, limiter, last, threads, solo>>

CallSanitizeErrorMessage ==
    Returns("sanitize_error_message", sanitize_error_message(call.args[1]))

CallSanitizeString ==
    Returns("sanitize_string", sanitize_string(call.args[1], call.args[2], call.args[3]))

CallValidateImageFile ==
    Returns("validate_image_file", validate_image_file(call.args[1]))

FnNext == CallSanitizeErrorMessage \/ CallSanitizeString \/ CallValidateImageFile

FnSpec == FnInit /\ [][FnNext]_vars

(***************************************************************************)
(* ConcSpec: check_rate_limit executed by request threads of the threaded  *)
(* server over the two module-level dictionaries, which no lock protects.  *)
(* A thread may be pre-empted between any two statements, and inside line  *)
(* 187 between building the filtered list and storing it.  Each action is  *)
(* one such step; a missing key raises KeyError, which ends the call.      *)
(* The keys snapshot of line 186 is visited in any order.                  *)
(***************************************************************************)
\* The overlapping calls come from one client.
ConcClients == {"10.0.0.1"}

Goto(t, label) == pc' = [pc EXCEPT ![t] = label]

\* The call ends: return value (or the exception raised) and back to idle.
Finish(t, result) ==
    /\ pc' = [pc EXCEPT ![t] = "idle"]
    /\ loc' = [loc EXCEPT ![t] = [IdleLocals EXCEPT !.result = result,
                                                    !.calls = loc[t].calls + 1]]

KeyError(t) == Finish(t, "KeyError")

\* Top of the loop of line 186, or the statement after it.
LoopHead(keys) == IF keys = {} THEN "l192" ELSE "l187"

Bump(counts, c, t) == [counts EXCEPT ![c][t] = @ + 1]

\* lines 182-183
Begin(t) ==
    /\ pc[t] = "idle"
    /\ loc[t].calls < MaxThreadCalls
    /\ \E c \in ConcClients :
          loc' = [loc EXCEPT ![t].client = c, ![t].current_time = now,
                             ![t].result = "none"]
    /\ Goto(t, "l186")
    /\ UNCHANGED <<now, limiter, last, call, solo, appended, allowedAt>>

\* line 186: list(request_counts.keys())
ListKeys(t) ==
    /\ pc[t] = "l186"
    /\ loc' = [loc EXCEPT ![t].keys = DOMAIN request_counts]
    /\ Goto(t, LoopHead(DOMAIN request_counts))
    /\ UNCHANGED <<now, limiter, last, call, solo, appended, allowedAt>>

\* line 187, right-hand side: the filtered copy of request_counts[ip]
Filter(t) ==
    /\ pc[t] = "l187"
    /\ \E ip \in loc[t].keys :
          IF ip \in DOMAIN request_counts
          THEN /\ loc' = [loc EXCEPT ![t].ip = ip, ![t].keys = @ \ {ip},
                                     ![t].filtered =
                                        Prune(request_counts[ip],
                                              loc[t].current_time - Window)]
               /\ Goto(t, "l187s")
          ELSE KeyError(t)
    /\ UNCHANGED <<now, limiter, last, call, solo, appended, allowedAt>>

\* line 187, the assignment
Store(t) ==
    /\ pc[t] = "l187s"
    /\ request_counts' = DictSet(request_counts, loc[t].ip, loc[t].filtered)
    /\ Goto(t, "l188")
    /\ UNCHANGED <<now, blocked_ips, last, call, solo, loc, appended, allowedAt>>

\* line 188
TestEmpty(t) ==
    /\ pc[t] = "l188"
    /\ IF loc[t].ip \notin DOMAIN request_counts
       THEN KeyError(t)
       ELSE /\ Goto(t, IF request_counts[loc[t].ip] = <<>> THEN "l189"
                       ELSE LoopHead(loc[t].keys))
            /\ UNCHANGED loc
    /\ UNCHANGED <<now, limiter, last, call, solo, appended, allowedAt>>

\* line 189
Delete(t) ==
    /\ pc[t] = "l189"
    /\ IF loc[t].ip \notin DOMAIN request_counts
       THEN KeyError(t) /\ UNCHANGED request_counts
       ELSE /\ request_counts' = DictDel(request_counts, loc[t].ip)
            /\ Goto(t, LoopHead(loc[t].keys))
            /\ UNCHANGED loc
    /\ UNCHANGED <<now, blocked_ips, last, call, solo, appended, allowedAt>>

\* line 192
CheckBlocked(t) ==
    /\ pc[t] = "l192"
    /\ Goto(t, IF loc[t].client \in DOMAIN blocked_ips THEN "l193" ELSE "l199")
    /\ UNCHANGED <<now, limiter, last, call, solo, loc, appended, allowedAt>>

\* lines 193-195
ReadBlock(t) ==
    /\ pc[t] = "l193"
    /\ IF loc[t].client \notin DOMAIN blocked_ips
       THEN KeyError(t)
       ELSE IF BlockActive(blocked_ips[loc[t].client], loc[t].current_time)
       THEN Finish(t, "False")
       ELSE Goto(t, "l196") /\ UNCHANGED loc
    /\ UNCHANGED <<now, limiter, last, call, solo, appended, allowedAt>>

\* line 196
Unblock(t) ==
    /\ pc[t] = "l196"
    /\ IF loc[t].client \notin DOMAIN blocked_ips
       THEN KeyError(t) /\ UNCHANGED blocked_ips
       ELSE /\ blocked_ips' = DictDel(blocked_ips, loc[t].client)
            /\ Goto(t, "l199")
            /\ UNCHANGED loc
    /\ UNCHANGED <<now, request_counts, last, call, solo, appended, allowedAt>>

\* line 199
CheckKnown(t) ==
    /\ pc[t] = "l199"
    /\ Goto(t, IF loc[t].client \notin DOMAIN request_counts THEN "l200" ELSE "l202")
    /\ UNCHANGED <<now, limiter, last, call, solo, loc, appended, allowedAt>>

\* line 200
Create(t) ==
    /\ pc[t] = "l200"
    /\ request_counts' = DictSet(request_counts, loc[t].client, <<>>)
    /\ Goto(t, "l202")
    /\ UNCHANGED <<now, blocked_ips, last, call, solo, loc, appended, allowedAt>>

\* line 202
AppendNow(t) ==
    /\ pc[t] = "l202"
    /\ IF loc[t].client \notin DOMAIN request_counts
       THEN KeyError(t) /\ UNCHANGED <<request_counts, appended>>
       ELSE /\ request_counts' = [request_counts EXCEPT ![loc[t].client] =
                                     Append(@, loc[t].current_time)]
            /\ appended' = Bump(appended, loc[t].client, loc[t].current_time)
            /\ Goto(t, "l205")
            /\ UNCHANGED loc
    /\ UNCHANGED <<now, blocked_ips, last, call, solo, allowedAt>>

\* lines 205 and 218
Compare(t) ==
    /\ pc[t] = "l205"
    /\ IF loc[t].client \notin DOMAIN request_counts
       THEN KeyError(t) /\ UNCHANGED allowedAt
       ELSE IF LimitExceeded(Len(request_counts[loc[t].client]), Limit)
       THEN Goto(t, "l207") /\ UNCHANGED <<loc, allowedAt>>
       ELSE /\ Finish(t, "True")
            /\ allowedAt' = Bump(allowedAt, loc[t].client, loc[t].current_time)
    /\ UNCHANGED <<now, limiter, last, call, solo, appended>>

\* lines 207-216; line 212 reads request_counts[client_ip] once more
Block(t) ==
    /\ pc[t] = "l207"
    /\ blocked_ips' = DictSet(blocked_ips, loc[t].client, BlockUntil(loc[t].current_time))
    /\ IF loc[t].client \notin DOMAIN request_counts
       THEN KeyError(t)
       ELSE Finish(t, "False")
    /\ UNCHANGED <<now, request_counts, last, call, solo, appended, allowedAt>>

ThreadStep(t) ==
    \/ Begin(t) \/ ListKeys(t) \/ Filter(t) \/ Store(t) \/ TestEmpty(t)
    \/ Delete(t) \/ CheckBlocked(t) \/ ReadBlock(t) \/ Unblock(t)
    \/ CheckKnown(t) \/ Create(t) \/ AppendNow(t) \/ Compare(t) \/ Block(t)

AllIdle == \A t \in Threads : pc[t] = "idle"

\* A call takes far less than a second: the clock moves between calls.
ConcTick == AllIdle /\ Tick

ConcNext == ConcTick \/ \E t \in Threads : ThreadStep(t)

ConcSpec == Init /\ [][ConcNext]_vars

(***************************************************************************)
(* Properties.                                                             *)
(***************************************************************************)
\* A step in which check_rate_limit ran for client c (the clock stands
\* still during a request, and rl names the caller).
CheckStep(c) == now' = now /\ rl'.client = c

TimesOf(dict, c) == IF c \in DOMAIN dict THEN dict[c] ELSE <<>>

HandlerCalls == Len(SelectSeq(ran, LAMBDA stage : stage = "handler"))

HasCode(code) == "error_code" \in DOMAIN resp.body /\ resp.body.error_code = code

\* C1: a client that starts with no recorded request and no block gets
\* True from its first Limit checks made within one window and False from
\* the next one: exactly Limit successes precede the first rejection.
C1_LimitThenReject ==
    \A c \in Clients :
        (rl.client = c /\ ncalls[c] \in 1..(Limit + 1))
            => (rl.result <=> ncalls[c] <= Limit)

C1_Witness ==
    \E c \in Clients :
        /\ rl.client = c /\ ncalls[c] = Limit + 1 /\ ~ rl.result
        /\ rl.branch = "exceeded"
        /\ Len(TimesOf(request_counts, c)) = Limit + 1

\* C2: a block created at time T holds until T + BlockDuration: every check
\* of that client before then returns False whatever its window holds; the
\* first check at or after T + BlockDuration deletes the entry and is
\* decided by the window count and the limit alone.
C2_BlockHonoured ==
    [][\A c \in Clients :
         CheckStep(c) =>
           /\ rl'.branch = "exceeded" =>
                 c \in DOMAIN blocked_ips' /\ blocked_ips'[c] = now + BlockDuration
           /\ (c \in DOMAIN blocked_ips /\ now < blocked_ips[c]) =>
                 ~ rl'.result /\ rl'.branch = "blocked"
           /\ (c \in DOMAIN blocked_ips /\ now >= blocked_ips[c]) =>
                 LET kept == SelectSeq(TimesOf(request_counts, c),
                                       LAMBDA t : t > now - Window)
                 IN  /\ rl'.unblocked
                     /\ rl'.result <=> Len(kept) + 1 <= Limit
                     /\ rl'.result => c \notin DOMAIN blocked_ips'
                     /\ ~ rl'.result => blocked_ips'[c] = now + BlockDuration
      ]_vars

C2_Witness ==
    \E c \in Clients :
        rl.client = c /\ rl.unblocked /\ rl.result /\ c \notin DOMAIN blocked_ips

\* C3: a check answered False because of an unexpired block appends no
\* timestamp to the client's list and leaves its blocked-until value as it
\* was.
C3_BlockedLeavesState ==
    [][\A c \in Clients :
         (CheckStep(c) /\ rl'.branch = "blocked") =>
           /\ c \in DOMAIN blocked_ips /\ c \in DOMAIN blocked_ips'
           /\ blocked_ips'[c] = blocked_ips[c]
           /\ TimesOf(request_counts', c)
                 = SelectSeq(TimesOf(request_counts, c), LAMBDA t : t > now - Window)
      ]_vars

C3_Witness ==
    \E c \in Clients :
        /\ rl.client = c /\ rl.branch = "blocked"
        /\ c \in DOMAIN blocked_ips /\ blocked_ips[c] > now
        /\ c \in DOMAIN request_counts /\ Len(request_counts[c]) <= Limit

\* Occurrences of time t in a list of request times.
CountOf(times, t) == Len(SelectSeq(times, LAMBDA x : x = t))

RECURSIVE SumFrom(_, _, _)
SumFrom(f, lo, hi) == IF lo > hi THEN 0 ELSE f[lo] + SumFrom(f, lo + 1, hi)

\* Every timestamp a finished call appended, and that no sweep may have
\* pruned yet, is still in the client's list.
NoTimestampLost ==
    \A c \in Clients : \A t \in Times :
        t > now - Window => CountOf(TimesOf(request_counts, c), t) >= appended[c][t]

\* At most Limit calls of one client returned True within the window.
AtMostLimitAllowed ==
    \A c \in Clients :
        SumFrom(allowedAt[c], IF now - Window + 1 < 0 THEN 0 ELSE now - Window + 1, now)
            <= Limit

\* C4: under every interleaving of check_rate_limit calls on different
\* request threads, once the calls have returned no appended timestamp is
\* lost and at most Limit calls of a client were allowed within one window.
C4_ConcurrentSafe == AllIdle => (NoTimestampLost /\ AtMostLimitAllowed)

\* A parsed body in which a required field is absent or null.
LacksField(r) ==
    /\ r.json.ok
    /\ \E i \in 1..Len(RequiredFields) :
          \/ RequiredFields[i] \notin DOMAIN r.json.data
          \/ r.json.data[RequiredFields[i]] = NoneVal

JsonEndpoints == {"start_game", "check_answer"}

\* The content-type or payload-size rule of the endpoint rejects the request.
BadContentType(r) ==
    /\ r.content_type # <<>>
    /\ \/ r.endpoint \in JsonEndpoints /\ ~ TypeIn("application/json", r.content_type)
       \/ r.endpoint = "predict" /\ ~ TypeIn("multipart/form-data", r.content_type)

TooLarge(r) == r.endpoint \in JsonEndpoints /\ r.content_length > MaxJsonSize

\* C5: a request to check_answer whose body lacks a required field, or has
\* it null, never reaches the endpoint function (0 invocations); the same
\* for a request rejected by the content-type rule, the size rule or the
\* rate limiter.
C5_RejectedNeverHandled ==
    (req.endpoint # "none" /\
       \/ req.endpoint = "check_answer" /\ LacksField(req)
       \/ BadContentType(req)
       \/ TooLarge(req)
       \/ ~ rl.result)
        => HandlerCalls = 0 /\ outcome = NotInvoked

C5_Witness ==
    /\ req.endpoint = "check_answer" /\ rl.result
    /\ IsJson(req.content_type) /\ ~ TooLarge(req)
    /\ "user_id" \in DOMAIN req.json.data /\ req.json.data["user_id"] = NoneVal
    /\ HandlerCalls = 0 /\ resp.status = 400

\* The request got as far as the required-fields check and failed it.
MissingFieldCase ==
    /\ req.endpoint = "check_answer" /\ rl.result
    /\ IsJson(req.content_type) /\ ~ TooLarge(req)
    /\ DOMAIN req.json.data # {} /\ LacksField(req)

\* C6: the response to a request missing a required field has error_code
\* VALIDATION_ERROR, status 400 and a `field` entry naming the missing field.
C6_MissingFieldEnvelope ==
    MissingFieldCase =>
        /\ resp.status = 400
        /\ HasCode("VALIDATION_ERROR") /\ resp.body.status_code = 400
        /\ "field" \in DOMAIN resp.body
        /\ \E i \in 1..Len(RequiredFields) :
              /\ resp.body.field = RequiredFields[i]
              /\ \/ RequiredFields[i] \notin DOMAIN req.json.data
                 \/ req.json.data[RequiredFields[i]] = NoneVal

\* The endpoint function raised an exception outside the APIError hierarchy.
RaisedUnclassified ==
    outcome.kind = "raise" /\ outcome.exc.cls \in {"Exception", "validation.ValidationError"}

\* C7: when the endpoint function raises an exception that is not an
\* APIError, the response is 500 / INTERNAL_ERROR with the fixed message
\* "Internal server error" and none of the exception's text.
C7_UnclassifiedIsInternal ==
    RaisedUnclassified =>
        /\ resp.status = 500
        /\ HasCode("INTERNAL_ERROR") /\ resp.body.status_code = 500
        /\ resp.body.error = <<"Internal server error">>
        /\ \A i \in 1..Len(outcome.exc.message) :
              ~ Occurs(outcome.exc.message[i], resp.body.error)

C7_Witness ==
    /\ RaisedUnclassified
    /\ Occurs("password=hunter2", outcome.exc.message)
    /\ resp.status = 500 /\ HasCode("INTERNAL_ERROR")

\* C8: every envelope with error_code INTERNAL_ERROR carries the fixed text
\* "Internal server error" and nothing else, also when the endpoint
\* function raised a plain APIError with the default code.
C8_InternalTextFixed ==
    HasCode("INTERNAL_ERROR") => resp.body.error = <<"Internal server error">>

\* C9: when check_rate_limit returns False the request goes straight to
\* the failure branch: no validation rule and no endpoint function runs and
\* the response is the 429 / RATE_LIMIT envelope.
C9_RateLimitedShortCircuit ==
    (req.endpoint # "none" /\ ~ rl.result) =>
        /\ ran = <<"check_rate_limit">>
        /\ outcome = NotInvoked
        /\ resp.status = 429
        /\ HasCode("RATE_LIMIT") /\ resp.body.status_code = 429

C9_Witness ==
    /\ req.endpoint = "check_answer" /\ rl.branch = "blocked"
    /\ BadContentType(req) /\ TooLarge(req) /\ LacksField(req)
    /\ resp.status = 429

\* The fixed (status, code) pair of each defined error kind.
KindOf(cls) ==
    CASE cls = "ValidationError"       -> <<400, "VALIDATION_ERROR">>
      [] cls = "AuthenticationError"   -> <<401, "AUTH_ERROR">>
      [] cls = "AuthorizationError"    -> <<403, "PERMISSION_ERROR">>
      [] cls = "ResourceNotFoundError" -> <<404, "NOT_FOUND">>
      [] cls = "RateLimitError"        -> <<429, "RATE_LIMIT">>
      [] cls = "SecurityError"         -> <<403, "SECURITY_ERROR">>

TypedClasses ==
    {"ValidationError", "AuthenticationError", "AuthorizationError",
     "ResourceNotFoundError", "RateLimitError", "SecurityError"}

\* C10: an error of a defined kind raised by the endpoint function reaches
\* the client with the status code and error code of that kind.
C10_TypedErrorKept ==
    (outcome.kind = "raise" /\ outcome.exc.cls \in TypedClasses) =>
        /\ resp.status = KindOf(outcome.exc.cls)[1]
        /\ resp.body.status_code = KindOf(outcome.exc.cls)[1]
        /\ HasCode(KindOf(outcome.exc.cls)[2])

C10_Witness ==
    /\ outcome.kind = "raise" /\ outcome.exc.cls = "SecurityError"
    /\ resp.status = 403 /\ HasCode("SECURITY_ERROR")

\* The SECURITY_ERROR events written to the security log for the request.
SecurityEvents == SelectSeq(audit, LAMBDA ev : ev.event_type = "SECURITY_ERROR")

\* C11: a SECURITY_ERROR audit event, at severity HIGH, is written if and
\* only if the request failed with a Security, Authentication or
\* Authorization error; no other failure writes one, and no request writes
\* more than one.
C11_AuditOnlySecurityKinds ==
    /\ Len(SecurityEvents) <= 1
    /\ \A i \in 1..Len(SecurityEvents) : SecurityEvents[i].severity = "HIGH"
    /\ Len(SecurityEvents) = 1
          <=> (failure # NoError /\
               failure.cls \in {"SecurityError", "AuthenticationError", "AuthorizationError"})

C11_Witness ==
    /\ failure # NoError /\ failure.cls = "AuthorizationError"
    /\ Len(SecurityEvents) = 1 /\ SecurityEvents[1].details.error_type = "AuthorizationError"
    /\ resp.status = 403

EnvelopeKeys == {"error", "error_code", "status_code", "request_id", "timestamp"}

\* C12: every failure response sent to a client (by the pipeline, by the
\* registered 404/405/413/500 handlers, or from inside a guarded endpoint)
\* holds error, error_code, status_code, request_id and timestamp, and its
\* transport status equals its status_code.
C12_FailuresFullEnvelope ==
    resp.status >= 400 =>
        /\ EnvelopeKeys \subseteq DOMAIN resp.body
        /\ resp.body.status_code = resp.status

\* A request require_fields rejects, whatever the reason.
FailsRequireFields(r) ==
    \/ ~ IsJson(r.content_type)
    \/ ~ r.json.ok
    \/ DOMAIN r.json.data = {}
    \/ LacksField(r)

\* The request was stopped by the rate limiter or by a rule of its endpoint.
ShortCircuited ==
    \/ ~ rl.result
    \/ BadContentType(req)
    \/ TooLarge(req)
    \/ req.endpoint = "check_answer" /\ FailsRequireFields(req)

\* C13: the endpoint function of a request is invoked at most once, and
\* exactly once unless the rate limiter or a validation rule stopped the
\* request.
C13_HandlerAtMostOnce ==
    req.endpoint \in Endpoints =>
        /\ HandlerCalls <= 1
        /\ HandlerCalls = 1 <=> ~ ShortCircuited
        /\ outcome # NotInvoked <=> HandlerCalls = 1

C13_Witness ==
    /\ req.endpoint = "check_answer"
    /\ ran = <<"check_rate_limit", "validate_content_type", "validate_json_size",
               "require_fields", "handler">>
    /\ outcome.kind = "return" /\ req.content_length = MaxJsonSize

\* The lines that report how the request ended.
OutcomeLines == SelectSeq(log, LAMBDA line : line.kind \in {"success", "error"})

\* C14: whatever branch the request took, the log holds one line reporting
\* its outcome, and the lines written for it give its request id together
\* with its method, path and client.
C14_SummaryLogged ==
    req.endpoint \in Endpoints =>
        /\ Len(OutcomeLines) = 1
        /\ \E i \in 1..Len(log) :
              /\ log[i].request_id = OutcomeLines[1].request_id
              /\ log[i].method = Method(req.endpoint)
              /\ log[i].path = Path(req.endpoint)
              /\ log[i].client = req.client

\* C15: when an APIValidator routine rejects the input inside a guarded
\* endpoint, the client receives 400 with error_code VALIDATION_ERROR.
C15_ValidatorRejectionIs400 ==
    (outcome.kind = "raise" /\ outcome.exc.cls = "validation.ValidationError") =>
        /\ resp.status = 400
        /\ HasCode("VALIDATION_ERROR")

FixedPairs ==
    { <<400, "VALIDATION_ERROR">>, <<401, "AUTH_ERROR">>, <<403, "PERMISSION_ERROR">>,
      <<404, "NOT_FOUND">>, <<429, "RATE_LIMIT">>, <<403, "SECURITY_ERROR">>,
      <<500, "INTERNAL_ERROR">> }

\* C16: the (status_code, error_code) pair of every error envelope is one
\* of the seven fixed pairs.
C16_TaxonomyClosed ==
    "error_code" \in DOMAIN resp.body =>
        <<resp.body.status_code, resp.body.error_code>> \in FixedPairs

\* C17: the error text of the envelope returned for a failed request is the
\* sanitized message of the exception or the fixed internal text, and so is
\* the text of every error line logged for it.
C17_MessagesSanitized ==
    failure # NoError =>
        /\ Join(resp.body.error, 1) \in {SanitizedMessage(failure), "Internal server error"}
        /\ \A i \in 1..Len(log) :
              log[i].level = "error" =>
                 log[i].text \in { "Error - " \o SanitizedMessage(failure),
                                   "Unexpected error: " \o
                                      SubAll(sensitive_patterns, 1, Traceback(failure)) }

\* C18: no output of sanitize_error_message contains the credential value,
\* a part of the filesystem path or the line reference of its input; in
\* particular not for the message
\* "password=hunter2 failed at /home/user/app/api/x.py line 42".
C18_SecretsRedacted ==
    (call.fn = "sanitize_error_message" /\ call.done) =>
        /\ ~ Contains(call.out, "hunter2")
        /\ ~ Contains(call.out, "/home/user")
        /\ ~ Contains(call.out, "x.py")
        /\ ~ Contains(call.out, "line 42")

\* C19: when sanitize_string accepts a string, applying it again to the
\* result with the same max_length and allow_special accepts too and
\* returns the same string.
C19_SanitizeStringIdempotent ==
    (call.fn = "sanitize_string" /\ call.done /\ call.out.ok) =>
        sanitize_string(call.out.value, call.args[2], call.args[3]) = call.out

C19_Witness ==
    /\ call.fn = "sanitize_string" /\ call.done /\ call.out.ok
    /\ call.out.value # call.args[1]
    /\ Len(call.out.value) = call.args[2]

\* The extensions each image type may carry.
ClaimedExtensions ==
    { <<"image/jpeg", "jpg">>, <<"image/jpeg", "jpeg">>, <<"image/png", "png">>,
      <<"image/webp", "webp">>, <<"image/bmp", "bmp">>, <<"image/gif", "gif">> }

\* The content starts with a signature of the type.
HasSignature(content, mime) ==
    \E k \in 1..Len(ALLOWED_IMAGE_TYPES) :
        /\ ALLOWED_IMAGE_TYPES[k].mime = mime
        /\ \E m \in ALLOWED_IMAGE_TYPES[k].magic : StartsWith(content, m)

\* The name ends in a dot and the extension, in any letter case.
NamedWith(name, ext) ==
    /\ Len(name) > Len(ext)
    /\ LowerStr(SubSeq(name, Len(name) - Len(ext), Len(name)), 1) = "." \o ext

\* C20: validate_image_file accepts an upload only if its name carries an
\* extension of the image type its content signature shows; the 10-byte
\* JPEG payload is accepted as a.jpg and rejected as a.png.
C20_ExtensionMustMatch ==
    (call.fn = "validate_image_file" /\ call.done) =>
        LET file == call.args[1]
        IN  /\ call.out.ok =>
                 \E pair \in ClaimedExtensions :
                     HasSignature(file.head, pair[1]) /\ NamedWith(call.out.value, pair[2])
            /\ (file.head = JpegPayload /\ file.size = 10 /\ file.filename = "a.jpg")
                  => call.out.ok
            /\ (file.head = JpegPayload /\ file.filename = "a.png") => ~ call.out.ok

C20_Witness ==
    /\ call.fn = "validate_image_file" /\ call.done
    /\ call.args[1].filename = "A.JPG" /\ call.args[1].head = JpegPayload
    /\ call.out.ok

\* The complete signature of each image format: the WEBP signature is the
\* RIFF tag, four bytes of length and the WEBP tag.
FullSignature(content) ==
    \/ StartsWith(content, <<255, 216, 255>>)
    \/ StartsWith(content, <<137, 80, 78, 71, 13, 10, 26, 10>>)
    \/ /\ StartsWith(content, <<82, 73, 70, 70>>)
       /\ Len(content) >= 12
       /\ SubSeq(content, 9, 12) = <<87, 69, 66, 80>>
    \/ StartsWith(content, <<66, 77>>)
    \/ StartsWith(content, <<71, 73, 70, 56, 55, 97>>)
    \/ StartsWith(content, <<71, 73, 70, 56, 57, 97>>)

\* C21: validate_image_file accepts content only when its leading bytes are
\* a full signature of the table (JPEG, PNG, RIFF....WEBP, BM, GIF87a,
\* GIF89a); RIFF content that is not WEBP, and content that only starts
\* with WEBP, is rejected.
C21_FullSignatureOnly ==
    (call.fn = "validate_image_file" /\ call.done /\ call.out.ok) =>
        FullSignature(call.args[1].head)

\* The stages of a request to check_answer, in the order they are declared.
DeclaredStages ==
    <<"check_rate_limit", "validate_content_type", "validate_json_size",
      "require_fields", "handler">>

\* C22: the rules of check_answer run in the order content type, payload
\* size, required fields; the first rule that fails decides the response
\* and no later rule and no endpoint function runs.
C22_FirstFailureDecides ==
    (req.endpoint = "check_answer" /\ rl.result) =>
        /\ \E n \in 1..Len(DeclaredStages) : ran = SubSeq(DeclaredStages, 1, n)
        /\ BadContentType(req) =>
              /\ ran = SubSeq(DeclaredStages, 1, 2)
              /\ resp.status = 400
              /\ resp.body.error = <<"Invalid content type. Allowed:">>
        /\ (~ BadContentType(req) /\ TooLarge(req)) =>
              /\ ran = SubSeq(DeclaredStages, 1, 3)
              /\ resp.status = 400
              /\ resp.body.error = <<"Payload too large">>
        /\ (~ BadContentType(req) /\ ~ TooLarge(req) /\ FailsRequireFields(req)) =>
              /\ ran = SubSeq(DeclaredStages, 1, 4)
              /\ resp.status >= 400
              /\ resp.body.error \notin {<<"Invalid content type. Allowed:">>,
                                         <<"Payload too large">>}
        /\ ran = DeclaredStages <=> ~ ShortCircuited

C22_Witness ==
    /\ req.endpoint = "check_answer" /\ rl.result
    /\ BadContentType(req) /\ TooLarge(req) /\ LacksField(req)
    /\ ran = <<"check_rate_limit", "validate_content_type">>
    /\ resp.body.error = <<"Invalid content type. Allowed:">>

\* Every stored timestamp of every client lies in (now - Window, now].
AllInWindow(rc, current_time) ==
    \A ip \in DOMAIN rc : \A i \in 1..Len(rc[ip]) :
        rc[ip][i] > current_time - Window /\ rc[ip][i] <= current_time

\* C23: right after a check_rate_limit call made at time `now` returns,
\* whatever its result, every timestamp stored in request_counts for any
\* client is greater than now - window and at most now.
C23_StoredInsideWindow ==
    [][\A c \in Clients : CheckStep(c) => AllInWindow(request_counts', now)]_vars

C23_Witness ==
    \E c \in Clients : \E other \in Clients \ {c} :
        /\ rl.client = c /\ rl.branch = "blocked"
        /\ now >= Window
        /\ other \in DOMAIN request_counts
        /\ request_counts[other] = <<now - Window + 1>>
        /\ ncalls[other] = Limit + 2
        /\ Len(request_counts[c]) = Limit + 1

\* C24: after every check_rate_limit call no key of request_counts maps to
\* an empty list (a list the sweep empties is deleted with its key), and
\* no step other than a check_rate_limit call changes request_counts.
C24_EmptyWindowReclaimed ==
    [][/\ \A ip \in DOMAIN request_counts' : request_counts'[ip] # <<>>
       /\ request_counts' # request_counts => \E c \in Clients : CheckStep(c)
      ]_vars

C24_Witness ==
    \E c \in Clients : \E other \in Clients \ {c} :
        /\ rl.client = c
        /\ ncalls[other] > 0
        /\ other \notin DOMAIN request_counts
        /\ c \in DOMAIN request_counts /\ request_counts[c] = <<now>>

\* C25: in every state reached by check_rate_limit calls and the passage of
\* time, each client present in blocked_ips has a blocked-until value
\* strictly greater than the current time.
C25_BlockEntryLive ==
    \A c \in DOMAIN blocked_ips : blocked_ips[c] > now

\* The RATE_LIMIT_EXCEEDED events among a request's audit events.
ExceededEvents(events) ==
    SelectSeq(events, LAMBDA ev : ev.event_type = "RATE_LIMIT_EXCEEDED")

\* C26: a block entry is created exactly by the check whose appended
\* timestamp makes the client's window count exceed the limit; that check
\* sets blocked-until to now + BlockDuration, writes exactly one
\* RATE_LIMIT_EXCEEDED event at severity HIGH with the client, endpoint,
\* count and limit, and returns False.  A check rejected by an existing
\* block writes no such event, and no other client's entry changes.
C26_BlockCreation ==
    [][\A c \in Clients :
         CheckStep(c) =>
           LET held == c \in DOMAIN blocked_ips /\ blocked_ips[c] > now
               kept == SelectSeq(TimesOf(request_counts, c), LAMBDA t : t > now - Window)
               exceeds == ~ held /\ Len(kept) + 1 > Limit
               created == /\ c \in DOMAIN blocked_ips'
                          /\ c \in DOMAIN blocked_ips => blocked_ips'[c] # blocked_ips[c]
           IN  /\ created <=> exceeds
               /\ exceeds =>
                     /\ blocked_ips'[c] = now + BlockDuration
                     /\ ~ rl'.result
                     /\ ExceededEvents(audit')
                          = << [event_type |-> "RATE_LIMIT_EXCEEDED", severity |-> "HIGH",
                                details |-> [client_ip |-> c, endpoint |-> req'.endpoint,
                                             request_count |-> Len(kept) + 1,
                                             limit |-> Limit]] >>
               /\ ~ exceeds => ExceededEvents(audit') = <<>>
               /\ \A o \in Clients \ {c} :
                     /\ o \in DOMAIN blocked_ips' <=> o \in DOMAIN blocked_ips
                     /\ o \in DOMAIN blocked_ips => blocked_ips'[o] = blocked_ips[o]
      ]_vars

C26_Witness ==
    \E c \in Clients :
        /\ rl.client = c /\ rl.branch = "exceeded" /\ now > 0
        /\ blocked_ips[c] = now + BlockDuration
        /\ Len(ExceededEvents(audit)) = 1
        /\ ExceededEvents(audit)[1].details.request_count = Limit + 1
        /\ request_counts[c][1] < now

\* C27: under every interleaving of concurrent check_rate_limit calls each
\* call returns True or False; none ends in a KeyError for a key missing
\* from request_counts or blocked_ips.
C27_NoKeyError ==
    \A t \in Threads : loc[t].result \in {"none", "True", "False"}

\* What a check of client c made at time t or later finds for c: its
\* timestamps once the check has swept them, and its block entry.
ViewOf(rc, bl, c, t) ==
    [times |-> SelectSeq(TimesOf(rc, c), LAMBDA x : x > t - Window),
     block |-> IF c \in DOMAIN bl THEN bl[c] ELSE -1]

\* C28: the result of every check of a client, and the timestamps and block
\* entry its next check finds for it, are those of a limiter that receives
\* this client's checks only: checks of other clients change neither.
C28_NonInterference ==
    \A c \in Clients :
        /\ rl.client = c => rl.result = solo[c].result
        /\ \A t \in now..MaxTime :
              ViewOf(request_counts, blocked_ips, c, t)
                 = ViewOf(solo[c].rc, solo[c].bl, c, t)

C28_Witness ==
    \E c \in Clients : \E other \in Clients \ {c} :
        /\ rl.client = other /\ rl.branch = "exceeded"
        /\ c \in DOMAIN solo[c].rc /\ c \notin DOMAIN request_counts
        /\ c \in DOMAIN blocked_ips

\* C29: check_rate_limit is the first stage of every request; unless an
\* unexpired block rejects the check, the request's time is appended to the
\* client's window whether the request then succeeds, fails a validation
\* rule or fails in its endpoint function; a request the limiter rejects is
\* answered 429 even if it also breaks a validation rule.
C29_CheckedAndRecordedFirst ==
    [][CheckStep(PipeClient) =>
         LET kept == SelectSeq(TimesOf(request_counts, PipeClient),
                               LAMBDA t : t > now - Window)
         IN  /\ ran' # <<>> /\ ran'[1] = "check_rate_limit"
             /\ \A i \in 2..Len(ran') : ran'[i] # "check_rate_limit"
             /\ rl'.branch # "blocked" =>
                   TimesOf(request_counts', PipeClient) = Append(kept, now)
             /\ rl'.branch = "blocked" =>
                   TimesOf(request_counts', PipeClient) = kept
             /\ ~ rl'.result => resp'.status = 429 /\ Len(ran') = 1
             /\ resp'.status = 400 => rl'.result
      ]_vars

C29_Witness ==
    /\ req.endpoint = "check_answer" /\ rl.client = PipeClient
    /\ rl.branch = "exceeded"
    /\ BadContentType(req) /\ resp.status = 429
    /\ Len(request_counts[PipeClient]) = Limit + 1
    /\ request_counts[PipeClient][1] < now

\* The endpoints that carry a content-type rule, and the type each allows.
RuledEndpoints == {"predict", "start_game", "check_answer"}

AllowedType(endpoint) ==
    IF endpoint = "predict" THEN "multipart/form-data" ELSE "application/json"

\* C30: the content-type rule rejects a request exactly when it has a
\* Content-Type in which the allowed type does not occur as a substring,
\* and the payload-size rule rejects exactly when Content-Length is
\* present, non-zero and greater than the maximum; a request without the
\* header passes the rule and goes on to the next stage.
C30_HeaderRules ==
    (req.endpoint \in RuledEndpoints /\ rl.result) =>
        LET typeBad == /\ req.content_type # <<>>
                       /\ ~ Contains(Join(req.content_type, 1), AllowedType(req.endpoint))
            sizeBad == /\ req.content_length # NoLength
                       /\ req.content_length # 0
                       /\ req.content_length > MaxJsonSize
        IN  /\ typeBad <=>
                 /\ ran = <<"check_rate_limit", "validate_content_type">>
                 /\ resp.status = 400
                 /\ resp.body.error = <<"Invalid content type. Allowed:">>
            /\ ~ typeBad => Len(ran) >= 3 /\ ran[2] = "validate_content_type"
            /\ (req.endpoint \in JsonEndpoints /\ ~ typeBad) =>
                 /\ sizeBad <=>
                      /\ ran = <<"check_rate_limit", "validate_content_type",
                                 "validate_json_size">>
                      /\ resp.status = 400
                      /\ resp.body.error = <<"Payload too large">>
                 /\ ~ sizeBad => Len(ran) >= 4 /\ ran[3] = "validate_json_size"

C30_Witness ==
    /\ req.endpoint = "start_game" /\ rl.result
    /\ req.content_type = <<>> /\ req.content_length = MaxJsonSize + 1
    /\ ran = <<"check_rate_limit", "validate_content_type", "validate_json_size">>
    /\ resp.body.error = <<"Payload too large">>

====
